---- MODULE Spec2Model ----
(***************************************************************************)
(* Model of src/server.js: the Hugging Face DeepSeek R1 proxy.             *)
(*                                                                         *)
(* src/server.js holds two revisions of the server back to back: revision  *)
(* 1 is lines 1-141, revision 2 is lines 143-256.  A deployment runs one   *)
(* of them; `variant` records which.  One inbound request is followed from *)
(* its arrival to the response; the upstream call is the only suspension   *)
(* point of handleChat (the `await axios.post`).                           *)
(*                                                                         *)
(* Text is a sequence of tokens: a token is either the whitespace token    *)
(* " " / "\n\n" or a run of non-whitespace characters.  Date.now() values  *)
(* are the opaque token "<now>".                                           *)
(***************************************************************************)
EXTENDS Integers, Sequences, FiniteSets, TLC

VARIABLES
    variant,     \* which revision of server.js is running (1 or 2)
    HF_API_KEY,  \* process.env.HF_API_KEY read at startup: TRUE iff truthy
    pc,          \* position of the request: "idle", "awaiting", "done"
    req,         \* the inbound request being handled
    upstream,    \* the axios.post calls issued for this request, in order
    outcome,     \* how the upstream promise settled
    sent         \* the responses written for this request, in order

vars == <<variant, HF_API_KEY, pc, req, upstream, outcome, sent>>

\* Largest number of messages in a request body.
MaxMsgs == 2

\* `max_tokens = 1024` default of the destructuring.
DefaultMaxTokens == 1024

\* axios timeout (ms).
Timeout == 120000

-----------------------------------------------------------------------------
(* JavaScript values *)

\* The value `undefined` (a missing property).
Undefined == "<undefined>"

\* Template-literal conversion `${v}` of a string or undefined.
ToStr(v) == IF v = Undefined THEN "undefined" ELSE v

Whitespace == {" ", "\n\n"}

RECURSIVE TrimStart(_)
TrimStart(t) ==
    IF t # <<>> /\ Head(t) \in Whitespace THEN TrimStart(Tail(t)) ELSE t

RECURSIVE TrimEnd(_)
TrimEnd(t) ==
    IF t # <<>> /\ t[Len(t)] \in Whitespace
    THEN TrimEnd(SubSeq(t, 1, Len(t) - 1))
    ELSE t

\* String.prototype.trim
Trim(t) == TrimEnd(TrimStart(t))

\* Truthiness of a string: non-empty.
Truthy(t) == t # <<>>

-----------------------------------------------------------------------------
(* Inputs *)

Roles == {"system", "user", "assistant", "tool", Undefined}
Contents == {"Hi", Undefined}
Messages == [role : Roles, content : Contents]

RECURSIVE SeqsUpTo(_, _)
SeqsUpTo(S, n) ==
    IF n = 0 THEN {<<>>}
    ELSE LET shorter == SeqsUpTo(S, n - 1)
         IN shorter \cup {Append(s, x) : s \in {q \in shorter : Len(q) = n - 1}, x \in S}

\* req.body.messages: an array of messages, or missing, or a non-iterable value.
MessagesValues ==
    {[t |-> "array", v |-> ms] : ms \in SeqsUpTo(Messages, MaxMsgs)}
        \cup {[t |-> "undefined", v |-> <<>>], [t |-> "number", v |-> <<>>]}

Bodies == [messages : MessagesValues, stream : BOOLEAN]

ChatPaths == {"/v1/chat/completions", "/chat/completions"}

ChatRequests == [method : {"POST"}, path : ChatPaths, body : Bodies]

EmptyBody == [messages |-> [t |-> "undefined", v |-> <<>>], stream |-> FALSE]

HealthRequest == [method |-> "GET", path |-> "/health", body |-> EmptyBody]
ModelsRequest == [method |-> "GET", path |-> "/v1/models", body |-> EmptyBody]

\* Requests no route before the catch-all matches.
UnknownRequests ==
    {[method |-> "GET", path |-> "/foo", body |-> EmptyBody],
     [method |-> "POST", path |-> "/foo", body |-> EmptyBody],
     [method |-> "GET", path |-> "/v1/chat/completions", body |-> EmptyBody],
     [method |-> "POST", path |-> "/health", body |-> EmptyBody]}

NoRequest == [method |-> "NONE", path |-> "", body |-> EmptyBody]

\* Generated texts the upstream may return.
Texts == {<<>>, <<" ">>, <<"Hello", " ", "there">>}

\* response.data of a 2xx upstream answer.
\*   shape "array1"  : [ x ]  with x = {generated_text: text} if has, {} if not
\*   shape "array0"  : []
\*   shape "arrayNull": [ null ]
\*   shape "object"  : {generated_text: text} if has, {} if not
\*   shape "string"  : text
\*   shape "null" / "undefined" / "number"
Payloads ==
    {[shape |-> s, has |-> TRUE, text |-> t] : s \in {"array1", "object", "string"}, t \in Texts}
        \cup {[shape |-> s, has |-> FALSE, text |-> <<>>] :
                s \in {"array1", "object", "array0", "arrayNull", "null", "undefined", "number"}}

\* Failures of axios.post: an HTTP error answer (error.response set, with
\* data.error = detail when non-empty), a network error, or the timeout.
UpstreamErrors ==
    {[kind |-> "http", status |-> 503, detail |-> "Model is currently loading"],
     [kind |-> "http", status |-> 429, detail |-> "Rate limit reached"],
     [kind |-> "http", status |-> 500, detail |-> ""],
     [kind |-> "http", status |-> 400, detail |-> "Bad request"],
     [kind |-> "network", status |-> 0, detail |-> ""],
     [kind |-> "timeout", status |-> 0, detail |-> ""]}

NoOutcome == [state |-> "none"]
Resolved(data) == [state |-> "resolved", data |-> data]
Rejected(err) == [state |-> "rejected", err |-> err]

-----------------------------------------------------------------------------
(* Helpers of the handlers.  A call that may throw returns                  *)
(* [ok |-> TRUE, value |-> v] or [ok |-> FALSE, message |-> error.message]. *)

Return(v) == [ok |-> TRUE, value |-> v, message |-> ""]
Throw(m) == [ok |-> FALSE, value |-> <<>>, message |-> m]

\* One iteration of the loop of messagesToPrompt, revision 1 (lines 39-41):
\* a system message is appended without a prefix.
PromptPart1(msg) ==
    IF msg.role = "system" THEN <<ToStr(msg.content), "\n\n">>
    ELSE IF msg.role = "user" THEN <<"User: ", ToStr(msg.content), "\n\n">>
    ELSE IF msg.role = "assistant" THEN <<"Assistant: ", ToStr(msg.content), "\n\n">>
    ELSE <<>>

\* One iteration of the loop of messagesToPrompt, revision 2 (lines 181-183).
PromptPart2(msg) ==
    IF msg.role = "system" THEN <<"System: ", ToStr(msg.content), "\n\n">>
    ELSE IF msg.role = "user" THEN <<"User: ", ToStr(msg.content), "\n\n">>
    ELSE IF msg.role = "assistant" THEN <<"Assistant: ", ToStr(msg.content), "\n\n">>
    ELSE <<>>

RECURSIVE PromptLoop(_, _)
PromptLoop(ms, v) ==
    IF ms = <<>> THEN <<>>
    ELSE (IF v = 1 THEN PromptPart1(Head(ms)) ELSE PromptPart2(Head(ms)))
            \o PromptLoop(Tail(ms), v)

\* messagesToPrompt(messages) of revision v; `for (const msg of messages)`
\* throws a TypeError when messages is not iterable.
messagesToPrompt(messages, v) ==
    IF messages.t # "array" THEN Throw("messages is not iterable")
    ELSE Return(PromptLoop(messages.v, v) \o <<"Assistant:">>)

\* The body of the axios.post call.  The requests of this model leave
\* max_tokens out of the body, so max_new_tokens is the default.
PostBody(prompt, v) ==
    IF v = 1
    THEN [inputs |-> prompt,
          parameters |-> [max_new_tokens |-> DefaultMaxTokens, temperature |-> "0.7",
                          top_p |-> "0.9", do_sample |-> TRUE, return_full_text |-> FALSE],
          options |-> [wait_for_model |-> TRUE, use_cache |-> FALSE],
          timeout |-> Timeout]
    ELSE [inputs |-> prompt,
          parameters |-> [max_new_tokens |-> DefaultMaxTokens, temperature |-> "0.7",
                          return_full_text |-> FALSE],
          options |-> [wait_for_model |-> TRUE],
          timeout |-> Timeout]

Apology == <<"I apologize, but I was unable to generate a response. Please try again.">>
NoResponse == <<"No response">>

\* `response.data[0]?.generated_text` for an array (or any indexable value):
\* the generated text of the first element, <<>> standing for undefined.
FirstGeneratedText(data) ==
    IF data.shape = "array1" /\ data.has THEN data.text ELSE <<>>

\* Lines 91-108: the text taken from response.data by revision 1.
\* `response.data.generated_text` throws when response.data is null or undefined.
extractText1(data) ==
    IF data.shape \in {"array1", "array0", "arrayNull"}
    THEN LET text == FirstGeneratedText(data)
         IN Return(IF ~Truthy(text) \/ Trim(text) = <<>> THEN Apology ELSE text)
    ELSE IF data.shape \in {"null", "undefined"}
    THEN Throw("Cannot read properties of " \o data.shape \o " (reading 'generated_text')")
    ELSE LET text == IF data.shape = "object" /\ data.has /\ Truthy(data.text) THEN data.text
                     ELSE IF data.shape = "string" THEN data.text
                     ELSE <<>>
         IN Return(IF ~Truthy(text) \/ Trim(text) = <<>> THEN Apology ELSE text)

\* Line 225: the text taken from response.data by revision 2.
\* `response.data[0]` throws when response.data is null or undefined; the
\* first character of a string has no generated_text.
extractText2(data) ==
    IF data.shape \in {"null", "undefined"}
    THEN Throw("Cannot read properties of " \o data.shape \o " (reading '0')")
    ELSE LET text == FirstGeneratedText(data)
         IN Return(IF Truthy(text) THEN text ELSE NoResponse)

extractText(data, v) == IF v = 1 THEN extractText1(data) ELSE extractText2(data)

\* error.message of an axios failure.
AxiosMessage(err) ==
    IF err.kind = "network" THEN "Network Error"
    ELSE IF err.kind = "timeout" THEN "timeout of 120000ms exceeded"
    ELSE IF err.status = 503 THEN "Request failed with status code 503"
    ELSE IF err.status = 429 THEN "Request failed with status code 429"
    ELSE IF err.status = 400 THEN "Request failed with status code 400"
    ELSE "Request failed with status code 500"

\* A thrown error as the catch block sees it: message, and
\* error.response?.data?.error ("" when there is none).
ThrownError(m) == [message |-> m, detail |-> ""]
AxiosError(err) == [message |-> AxiosMessage(err), detail |-> err.detail]

Json(status, body) == [status |-> status, ctype |-> "application/json", body |-> body]

\* A catch block that only logs the error and writes nothing.
CatchLogOnly(error) == <<>>

\* The catch block of handleChat: the responses it writes.
Catch(error) ==
    <<Json(500, [error |-> [message |-> IF error.detail # "" THEN error.detail
                                        ELSE error.message]])>>

\* The missing-credential answer (lines 58-60).
MissingKey == <<Json(500, [error |-> [message |-> "HF_API_KEY not set"]])>>

\* The chat completion written by res.json (lines 110-120).
Completion(text) ==
    <<Json(200, [id |-> "chatcmpl-<now>", object |-> "chat.completion", created |-> "<now>",
                 model |-> "deepseek-r1",
                 choices |-> <<[index |-> 0,
                                message |-> [role |-> "assistant", content |-> text],
                                finish_reason |-> "stop"]>>])>>

-----------------------------------------------------------------------------
(* State machine *)

Init ==
    /\ variant \in {1, 2}
    /\ HF_API_KEY \in BOOLEAN
    /\ pc = "idle"
    /\ req = NoRequest
    /\ upstream = <<>>
    /\ outcome = NoOutcome
    /\ sent = <<>>

\* app.get('/health')
Health ==
    /\ pc = "idle"
    /\ req' = HealthRequest
    /\ sent' = <<Json(200, [status |-> "ok", service |-> "Hugging Face DeepSeek R1 Proxy",
                           model |-> "deepseek-ai/DeepSeek-R1-0528"])>>
    /\ pc' = "done"
    /\ UNCHANGED <<variant, HF_API_KEY, upstream, outcome>>

\* app.get('/v1/models')
Models ==
    /\ pc = "idle"
    /\ req' = ModelsRequest
    /\ sent' = <<Json(200, [object |-> "list",
                           data |-> <<[id |-> "deepseek-r1", object |-> "model",
                                       created |-> "<now>", owned_by |-> "hf"]>>])>>
    /\ pc' = "done"
    /\ UNCHANGED <<variant, HF_API_KEY, upstream, outcome>>

\* app.all('*'): the catch-all.
CatchAll ==
    /\ pc = "idle"
    /\ \E r \in UnknownRequests :
        /\ req' = r
        /\ sent' = <<Json(404, [error |-> [message |-> "Path " \o r.path \o " not found"]])>>
    /\ pc' = "done"
    /\ UNCHANGED <<variant, HF_API_KEY, upstream, outcome>>

\* handleChat up to its await: the credential check, the prompt, the call.
HandleChat(r) ==
    /\ pc = "idle"
    /\ req' = r
    /\ IF ~HF_API_KEY
       THEN /\ sent' = sent \o MissingKey
            /\ pc' = "done"
            /\ UNCHANGED upstream
       ELSE LET prompt == messagesToPrompt(r.body.messages, variant)
            IN IF ~prompt.ok
               THEN /\ sent' = sent \o Catch(ThrownError(prompt.message))
                    /\ pc' = "done"
                    /\ UNCHANGED upstream
               ELSE /\ upstream' = Append(upstream, PostBody(prompt.value, variant))
                    /\ pc' = "awaiting"
                    /\ UNCHANGED sent
    /\ UNCHANGED <<variant, HF_API_KEY, outcome>>

\* handleChat after the await, when axios.post resolved with response.data.
HandleChatResolved(data) ==
    /\ pc = "awaiting"
    /\ outcome' = Resolved(data)
    /\ LET text == extractText(data, variant)
       IN sent' = sent \o (IF text.ok THEN Completion(text.value)
                           ELSE Catch(ThrownError(text.message)))
    /\ pc' = "done"
    /\ UNCHANGED <<variant, HF_API_KEY, req, upstream>>

\* A handler that re-issues the upstream call when it fails.
HandleChatRetry(err) ==
    /\ pc = "awaiting"
    /\ Len(upstream) < 3
    /\ upstream' = Append(upstream, upstream[1])
    /\ UNCHANGED <<variant, HF_API_KEY, pc, req, outcome, sent>>

\* handleChat after the await, when axios.post rejected.
HandleChatRejected(err) ==
    /\ pc = "awaiting"
    /\ outcome' = Rejected(err)
    /\ sent' = sent \o Catch(AxiosError(err))
    /\ pc' = "done"
    /\ UNCHANGED <<variant, HF_API_KEY, req, upstream>>

\* The connection is finished; the server waits for the next request.
NextRequest ==
    /\ pc = "done"
    /\ pc' = "idle"
    /\ req' = NoRequest
    /\ upstream' = <<>>
    /\ outcome' = NoOutcome
    /\ sent' = <<>>
    /\ UNCHANGED <<variant, HF_API_KEY>>

Next ==
    \/ Health
    \/ Models
    \/ CatchAll
    \/ \E r \in ChatRequests : HandleChat(r)
    \/ \E data \in Payloads : HandleChatResolved(data)
    \/ \E err \in UpstreamErrors : HandleChatRejected(err)
    \/ NextRequest

Spec == Init /\ [][Next]_vars

-----------------------------------------------------------------------------
(* Vocabulary of the properties *)

\* The request being handled went to handleChat.
IsChat == req.method = "POST" /\ req.path \in ChatPaths

IsError(r) == r.status >= 400

\* The assistant content of a chat completion response.
Content(r) == r.body.choices[1].message.content

IsCompletion(r) ==
    /\ r.status = 200
    /\ "choices" \in DOMAIN r.body

WellFormed(msg) == msg.role \in {"system", "user", "assistant"} /\ msg.content # Undefined

Malformed(msg) == msg.role = Undefined \/ msg.content = Undefined

RolePrefix(role) ==
    IF role = "system" THEN "System: "
    ELSE IF role = "user" THEN "User: "
    ELSE "Assistant: "

\* The upstream answer carries the non-empty generated text in one of the
\* three documented shapes.
CarriesText(data) ==
    /\ data.shape \in {"array1", "object", "string"}
    /\ data.has
    /\ data.text # <<>>

RECURSIVE Concat(_)
Concat(ss) == IF ss = <<>> THEN <<>> ELSE Head(ss) \o Concat(Tail(ss))

-----------------------------------------------------------------------------
(* C1 *)

\* C1: without HF_API_KEY every chat request is answered with HTTP 500 of
\* error type configuration_error, and no upstream call is made.
C1_MissingKeyIsConfigurationError ==
    (IsChat /\ ~HF_API_KEY /\ pc # "idle") =>
        /\ pc = "done"
        /\ upstream = <<>>
        /\ Len(sent) = 1
        /\ sent[1].status = 500
        /\ "error" \in DOMAIN sent[1].body
        /\ "type" \in DOMAIN sent[1].body.error
        /\ sent[1].body.error.type = "configuration_error"

(* C2 *)

\* C2: the status of a failed chat request follows the upstream failure:
\* 503 for an upstream 503, 429 for an upstream 429, 500 for anything else.
C2_StatusFollowsUpstreamFailure ==
    (IsChat /\ pc = "done" /\ outcome.state = "rejected") =>
        /\ Len(sent) = 1
        /\ sent[1].status =
              IF outcome.err.kind = "http" /\ outcome.err.status = 503 THEN 503
              ELSE IF outcome.err.kind = "http" /\ outcome.err.status = 429 THEN 429
              ELSE 500

(* C3 *)

\* C3: a stream:true request whose upstream call returned text T is answered
\* with data: chunk events whose contents concatenate to T, only the last
\* with finish reason "stop", followed by the [DONE] marker and nothing else.
C3_StreamIsChunksThenDone ==
    (IsChat /\ pc = "done" /\ req.body.stream /\ outcome.state = "resolved"
        /\ CarriesText(outcome.data) /\ Trim(outcome.data.text) # <<>>) =>
        \E n \in 1..Len(sent) :
            /\ Len(sent) = n + 1
            /\ \A i \in 1..n :
                /\ sent[i].ctype = "text/event-stream"
                /\ "chunk" \in DOMAIN sent[i]
                /\ sent[i].finish = (IF i = n THEN "stop" ELSE "null")
            /\ Concat([i \in 1..n |-> sent[i].chunk]) = outcome.data.text
            /\ sent[n + 1].ctype = "text/event-stream"
            /\ "done" \in DOMAIN sent[n + 1]

(* C4 *)

\* C4: for messages with roles in {system, user, assistant} the prompt is,
\* for each message in order, its role prefix, its content and a blank line,
\* and then the suffix "Assistant:".
C4_PromptHasEveryMessagePrefixed ==
    (IsChat /\ req.body.messages.t = "array" /\ upstream # <<>>
        /\ \A i \in DOMAIN req.body.messages.v : WellFormed(req.body.messages.v[i])) =>
        LET ms == req.body.messages.v
            prompt == upstream[1].inputs
        IN /\ Len(prompt) = 3 * Len(ms) + 1
           /\ \A i \in DOMAIN ms :
                /\ prompt[3 * i - 2] = RolePrefix(ms[i].role)
                /\ prompt[3 * i - 1] = ms[i].content
                /\ prompt[3 * i] = "\n\n"
           /\ prompt[Len(prompt)] = "Assistant:"

(* C5 *)

\* C5: for a non-empty text T the extracted text is the same for the
\* payloads [{generated_text: T}], {generated_text: T} and T; it is T itself
\* when T is not blank.
C5_ThreeShapesExtractAlike ==
    (IsChat /\ pc = "done" /\ outcome.state = "resolved" /\ CarriesText(outcome.data)) =>
        /\ Len(sent) = 1
        /\ IsCompletion(sent[1])
        /\ \A s \in {"array1", "object", "string"} :
              LET other == extractText([outcome.data EXCEPT !.shape = s], variant)
              IN other.ok /\ other.value = Content(sent[1])
        /\ (Trim(outcome.data.text) # <<>> => Content(sent[1]) = outcome.data.text)

(* C6 *)

\* C6: when the upstream call succeeds and no text, or only blank text, can
\* be extracted, the caller gets a successful response whose content is the
\* apology string; the content of a successful response is never empty.
C6_FallbackIsApology ==
    /\ (IsChat /\ pc = "done" /\ outcome.state = "resolved"
            /\ (~CarriesText(outcome.data) \/ Trim(outcome.data.text) = <<>>)) =>
            /\ Len(sent) = 1
            /\ IsCompletion(sent[1])
            /\ Content(sent[1]) = Apology
    /\ \A i \in DOMAIN sent :
            IsCompletion(sent[i]) => Trim(Content(sent[i])) # <<>>

(* C7 *)

\* C7: a chat request issues at most one upstream call and none after a
\* failure; a failed upstream call fails the request; a request never gets
\* both a success and an error response, and a finished one got one of them.
C7_OneUpstreamCallNoRetry ==
    /\ Len(upstream) <= 1
    /\ (upstream # <<>> => IsChat /\ HF_API_KEY)
    /\ (outcome.state = "rejected" =>
            /\ pc = "done"
            /\ Len(upstream) = 1
            /\ \A i \in DOMAIN sent : IsError(sent[i]))
    /\ ~(\E i, j \in DOMAIN sent : IsCompletion(sent[i]) /\ IsError(sent[j]))
    /\ (IsChat /\ pc = "done" =>
            \E i \in DOMAIN sent : IsCompletion(sent[i]) \/ IsError(sent[i]))

\* An upstream failure has failed the request after its single call.
C7_Witness ==
    /\ IsChat
    /\ pc = "done"
    /\ outcome.state = "rejected"
    /\ Len(upstream) = 1
    /\ Len(sent) = 1
    /\ sent[1].status = 500

(* C8 *)

\* C8: a chat request with a message that has no role or no content is
\* answered with an error; no prompt is built from it and sent upstream.
C8_MalformedMessageFailsRequest ==
    (IsChat /\ req.body.messages.t = "array"
        /\ \E i \in DOMAIN req.body.messages.v : Malformed(req.body.messages.v[i])) =>
        /\ upstream = <<>>
        /\ pc = "done"
        /\ Len(sent) = 1
        /\ IsError(sent[1])

(* C9 *)

\* C9: every error response has a body {error: {message, type, code}}, and
\* the 404 of an unknown route has type invalid_request_error.
C9_ErrorBodyHasMessageTypeCode ==
    \A i \in DOMAIN sent :
        IsError(sent[i]) =>
            /\ "error" \in DOMAIN sent[i].body
            /\ {"message", "type", "code"} \subseteq DOMAIN sent[i].body.error
            /\ (sent[i].status = 404 => sent[i].body.error.type = "invalid_request_error")

(* C10 *)

\* C10: handleChat writes exactly one response on every path, nothing while
\* the upstream call is pending, and a 200 only after the one upstream call
\* has resolved.
C10_ExactlyOneResponse ==
    IsChat =>
        /\ Len(sent) <= 1
        /\ (pc = "done" => Len(sent) = 1)
        /\ (pc = "awaiting" => sent = <<>> /\ Len(upstream) = 1 /\ outcome.state = "none")
        /\ \A i \in DOMAIN sent :
              sent[i].status = 200 => outcome.state = "resolved" /\ Len(upstream) = 1

\* The upstream call resolved with a payload whose reading throws, and the
\* catch block wrote the one response.
C10_Witness ==
    /\ IsChat
    /\ pc = "done"
    /\ outcome.state = "resolved"
    /\ outcome.data.shape = "null"
    /\ Len(sent) = 1
    /\ sent[1].status = 500

====
